---------------------------- MODULE Spec2Model ----------------------------
(***************************************************************************)
(* A model of alignysis: the phonetic classifiers (phonetic.py), the       *)
(* per-corpus error/confusion fold (align.py) and the cross-experiment     *)
(* aggregation (discophone.py).                                            *)
(*                                                                         *)
(* A Python string is modelled as a sequence of atoms.  An atom is one     *)
(* character ("a", "t", ":", " ", "<", ">", "-", "*", "?"), or stands for  *)
(* a run of letters that the code never splits ("silence", "hes"), or for  *)
(* a character outside ASCII: "'" is the stress mark U+02C8, "||" is the   *)
(* click U+01C1 and "@r" is the rhotic schwa U+025A.  A class name such as *)
(* 'Plosive' is a string of one atom.                                      *)
(***************************************************************************)
EXTENDS Integers, Sequences, FiniteSets, TLC

(***************************************************************************)
(* Bounds of the model.                                                    *)
(***************************************************************************)
MaxSymLen == 3
MaxUtts == 2
MaxCorpora == 2
MaxExpts == 2

(***************************************************************************)
(* Generic helpers on sequences (Python str / list operations).            *)
(***************************************************************************)
\* str.startswith: tok is a prefix of s.
startswith(s, tok) ==
    /\ Len(tok) <= Len(s)
    /\ SubSeq(s, 1, Len(tok)) = tok

\* All sequences over S of length at most n.
SeqsUpTo(S, n) == UNION {[1..k -> S] : k \in 0..n}

\* All orders in which the elements of the finite set S can be iterated.
Orders(S) ==
    {o \in [1..Cardinality(S) -> S] : \A x \in S : \E i \in DOMAIN o : o[i] = x}

(***************************************************************************)
(* A Python dict: the sequence of its [k, v] entries in insertion order.   *)
(* A key that is set again keeps its position and takes the new value.     *)
(***************************************************************************)
Has(d, key) == \E i \in DOMAIN d : d[i].k = key
Idx(d, key) == CHOOSE i \in DOMAIN d : d[i].k = key
Keys(d) == {d[i].k : i \in DOMAIN d}
\* d.get(key, default)
Get(d, key, default) == IF Has(d, key) THEN d[Idx(d, key)].v ELSE default
\* d[key] = value
Put(d, key, value) ==
    IF Has(d, key) THEN [d EXCEPT ![Idx(d, key)].v = value]
    ELSE Append(d, [k |-> key, v |-> value])

(***************************************************************************)
(* phonetic.py                                                             *)
(***************************************************************************)
\* Python's None: a value that is no string (no string holds the atom "None").
None == <<"None">>

GAP_CHAR == <<"*">>
UNKNOWN == <<"?">>
STRESS == <<"'">>

\* A sample of manner_of_articulation_to_phones, in the source's order.
\* Every phone of the source's table is a single code point, as here.
manner_of_articulation_to_phones ==
    << [cls |-> <<"Plosive">>, phones |-> << <<"t">> >>],
       [cls |-> <<"Vowels">>,  phones |-> << <<"a">> >>],
       [cls |-> <<"Clicks">>,  phones |-> << <<"||">> >>] >>

\* A sample of place_of_articulation_to_phones, in the source's order.
place_of_articulation_to_phones ==
    << [cls |-> <<"Alveolar">>, phones |-> << <<"t">> >>],
       [cls |-> <<"Vow-Clm">>,  phones |-> << <<"@r">> >>],
       [cls |-> <<"Vow-Open">>, phones |-> << <<"a">> >>] >>

\* The dict comprehension {phone: cls for cls, phones in d.items() for phone in phones}.
RECURSIVE PhoneToClass(_, _, _, _)
PhoneToClass(groups, g, p, d) ==
    IF g > Len(groups) THEN d
    ELSE IF p > Len(groups[g].phones) THEN PhoneToClass(groups, g + 1, 1, d)
    ELSE PhoneToClass(groups, g, p + 1, Put(d, groups[g].phones[p], groups[g].cls))

phone_to_manner == PhoneToClass(manner_of_articulation_to_phones, 1, 1, <<>>)
phone_to_place == PhoneToClass(place_of_articulation_to_phones, 1, 1, <<>>)

\* frozenset(phone_to_place).union(phone_to_manner): a set, iterated in an
\* order that the hash seed of the process decides.
PHONE_BASES == Keys(phone_to_place) \cup Keys(phone_to_manner)

BaseOrders == Orders(PHONE_BASES)

\* "if phone.startswith(STRESS): phone = phone[1:]"
StripStress(phone) == IF startswith(phone, STRESS) THEN Tail(phone) ELSE phone

\* "for phone_tok in table: if phone.startswith(phone_tok): return table[phone_tok]"
RECURSIVE LookupClass(_, _, _)
LookupClass(table, phone, i) ==
    IF i > Len(table) THEN UNKNOWN
    ELSE IF startswith(phone, table[i].k) THEN table[i].v
    ELSE LookupClass(table, phone, i + 1)

determine_place(phone, table) ==
    IF phone = GAP_CHAR THEN phone
    ELSE LookupClass(table, StripStress(phone), 1)

determine_manner(phone, table) ==
    IF phone = GAP_CHAR THEN phone
    ELSE LookupClass(table, StripStress(phone), 1)

\* "for base in bases_: if phone.startswith(base): return base"
RECURSIVE LookupBase(_, _, _)
LookupBase(bases, phone, i) ==
    IF i > Len(bases) THEN UNKNOWN
    ELSE IF startswith(phone, bases[i]) THEN bases[i]
    ELSE LookupBase(bases, phone, i + 1)

\* determine_base without its first test: the gap marker is looked up too.
determine_base_NoGapTest(phone, bases_) == LookupBase(bases_, StripStress(phone), 1)

\* bases_ is the iteration order of the frozenset PHONE_BASES.
determine_base(phone, bases_) ==
    IF phone = GAP_CHAR THEN phone
    ELSE LookupBase(bases_, StripStress(phone), 1)

(***************************************************************************)
(* align.py: text operations                                               *)
(***************************************************************************)
SPACE == " "
SILENCE == <<"<", "s", "i", "l", "e", "n", "c", "e", ">">>

\* phonetic.py: a sample of IGNORED_SYMBOLS, in the source's order.
IGNORED_SYMBOLS == << SILENCE, <<">">>, <<"-">>, <<"<">> >>

\* get_ignored_symbols_re(symbols): re.compile('(' + '|'.join(symbols) + ')').
\* The compiled pattern is the sequence of its alternatives, in the order
\* in which symbols is iterated; joining None raises TypeError.
get_ignored_symbols_re(symbols) == symbols

\* The first alternative of the pattern that matches at the head of s
\* (an empty alternative matches everywhere), or None.
RECURSIVE FirstMatch(_, _, _)
FirstMatch(pattern, s, i) ==
    IF i > Len(pattern) THEN None
    ELSE IF startswith(s, pattern[i]) THEN pattern[i]
    ELSE FirstMatch(pattern, s, i + 1)

\* pattern.sub('', s): every leftmost match is removed; where nothing
\* matches, or only the empty string does, the character is kept.
RECURSIVE RegexSub(_, _)
RegexSub(pattern, s) ==
    IF s = <<>> THEN <<>>
    ELSE LET m == IF pattern = <<>> THEN <<>> ELSE FirstMatch(pattern, s, 1)
         IN  IF m = None \/ m = <<>>
             THEN << Head(s) >> \o RegexSub(pattern, Tail(s))
             ELSE RegexSub(pattern, SubSeq(s, Len(m) + 1, Len(s)))

\* s.replace(old, new), old not empty: leftmost non-overlapping occurrences.
RECURSIVE Replace(_, _, _)
Replace(s, old, new) ==
    IF s = <<>> THEN <<>>
    ELSE IF startswith(s, old) THEN new \o Replace(SubSeq(s, Len(old) + 1, Len(s)), old, new)
    ELSE << Head(s) >> \o Replace(Tail(s), old, new)

\* s.strip()
RECURSIVE LStrip(_)
LStrip(s) == IF s # <<>> /\ Head(s) = SPACE THEN LStrip(Tail(s)) ELSE s
RECURSIVE RStrip(_)
RStrip(s) ==
    IF s # <<>> /\ s[Len(s)] = SPACE THEN RStrip(SubSeq(s, 1, Len(s) - 1)) ELSE s
Strip(s) == RStrip(LStrip(s))

\* s.split(): the maximal runs of characters that are not whitespace.
RECURSIVE SplitFrom(_, _, _)
SplitFrom(s, tokens, cur) ==
    IF s = <<>> THEN (IF cur = <<>> THEN tokens ELSE Append(tokens, cur))
    ELSE IF Head(s) = SPACE
         THEN SplitFrom(Tail(s), IF cur = <<>> THEN tokens ELSE Append(tokens, cur), <<>>)
         ELSE SplitFrom(Tail(s), tokens, Append(cur, Head(s)))
Split(s) == SplitFrom(s, <<>>, <<>>)

\* ''.join(tokens)
RECURSIVE Concat(_)
Concat(tokens) == IF tokens = <<>> THEN <<>> ELSE Head(tokens) \o Concat(Tail(tokens))

\* ' '.join(tokens)
RECURSIVE JoinSpace(_)
JoinSpace(tokens) ==
    IF tokens = <<>> THEN <<>>
    ELSE IF Len(tokens) = 1 THEN Head(tokens)
    ELSE Head(tokens) \o << SPACE >> \o JoinSpace(Tail(tokens))

\* list(s): one symbol per character.
Chars(s) == [i \in 1..Len(s) |-> << s[i] >>]

\* The comprehension of line 120 without its condition.
RECURSIVE BasesOf_Unfiltered(_, _)
BasesOf_Unfiltered(tokens, bases_) ==
    IF tokens = <<>> THEN <<>>
    ELSE << determine_base(Head(tokens), bases_) >> \o BasesOf_Unfiltered(Tail(tokens), bases_)

\* [f(x) for x in xs if keep(x)] for f = determine_base, keep = (f(x) != '?')
RECURSIVE BasesOf(_, _)
BasesOf(tokens, bases_) ==
    IF tokens = <<>> THEN <<>>
    ELSE IF determine_base(Head(tokens), bases_) # UNKNOWN
         THEN << determine_base(Head(tokens), bases_) >> \o BasesOf(Tail(tokens), bases_)
         ELSE BasesOf(Tail(tokens), bases_)

\* Lines 102-121 of compute_confusions for one side of an utterance pair:
\* remove the special symbols, split into phones, apply the scoring method.
RemoveSpecial(text, remove_pattern) ==
    IF remove_pattern # None
    THEN RegexSub(remove_pattern, text)
    ELSE Strip(Replace(Replace(text, << SPACE >> \o SILENCE \o << SPACE >>, << SPACE >>),
                       SILENCE, <<>>))

\* Lines 113-121 with the tokens of 'pter' left whole.
ScoringTransform_PterWhole(tokens, scoring_method, bases_) ==
    IF scoring_method = "bper" THEN BasesOf(tokens, bases_) ELSE tokens

ScoringTransform(tokens, scoring_method, bases_) ==
    IF scoring_method = "pter" THEN Chars(Concat(tokens))
    ELSE IF scoring_method = "bper" THEN BasesOf(tokens, bases_)
    ELSE tokens

NormaliseSide(text, remove_pattern, scoring_method, bases_) ==
    ScoringTransform(Split(RemoveSpecial(text, remove_pattern)), scoring_method, bases_)

(***************************************************************************)
(* kaldialign.align(ref, hyp, GAP_CHAR): the minimum edit distance         *)
(* alignment; its trace-back prefers a match or substitution, then a       *)
(* deletion, then an insertion.                                            *)
(***************************************************************************)
Min2(x, y) == IF x <= y THEN x ELSE y

\* Row m of the edit distance table e, from row m - 1: cur holds e[m][0..n-1].
RECURSIVE EditRow(_, _, _, _, _)
EditRow(prev, a_m, b, n, cur) ==
    IF n > Len(b) THEN cur
    ELSE LET sub_or_ok == prev[n] + (IF a_m = b[n] THEN 0 ELSE 1)
             del == prev[n + 1] + 1
             ins == cur[n] + 1
         IN  EditRow(prev, a_m, b, n + 1, Append(cur, Min2(sub_or_ok, Min2(del, ins))))

\* The rows e[0..Len(a)]; e[m][n] is rows[m + 1][n + 1].
RECURSIVE EditRows(_, _, _, _)
EditRows(a, b, m, rows) ==
    IF m > Len(a) THEN rows
    ELSE EditRows(a, b, m + 1,
                  Append(rows, EditRow(rows[m], a[m], b, 1, << rows[m][1] + 1 >>)))

EditTable(a, b) == EditRows(a, b, 1, << [n \in 1..(Len(b) + 1) |-> n - 1] >>)

RECURSIVE TraceBack(_, _, _, _, _, _)
TraceBack(e, a, b, m, n, eps) ==
    IF m = 0 /\ n = 0 THEN <<>>
    ELSE IF m = 0 THEN Append(TraceBack(e, a, b, m, n - 1, eps), << eps, b[n] >>)
    ELSE IF n = 0 THEN Append(TraceBack(e, a, b, m - 1, n, eps), << a[m], eps >>)
    ELSE LET sub_or_ok == e[m][n] + (IF a[m] = b[n] THEN 0 ELSE 1)
             del == e[m][n + 1] + 1
             ins == e[m + 1][n] + 1
         IN  IF sub_or_ok <= Min2(del, ins)
             THEN Append(TraceBack(e, a, b, m - 1, n - 1, eps), << a[m], b[n] >>)
             ELSE IF del <= ins
             THEN Append(TraceBack(e, a, b, m - 1, n, eps), << a[m], eps >>)
             ELSE Append(TraceBack(e, a, b, m, n - 1, eps), << eps, b[n] >>)

align(ref, hyp, eps) == TraceBack(EditTable(ref, hyp), ref, hyp, Len(ref), Len(hyp), eps)

(***************************************************************************)
(* align.py: join_ref_hyp and the fold of compute_confusions               *)
(***************************************************************************)
\* The two logging.warning calls of join_ref_hyp, as [msg, diff] entries.
JoinWarnings(id_to_ref_, id_to_hyp_) ==
    LET ref_ids == Keys(id_to_ref_)
        hyp_ids == Keys(id_to_hyp_)
        common_ids == ref_ids \cap hyp_ids
        diff1 == Cardinality(ref_ids) - Cardinality(common_ids)
        diff2 == Cardinality(hyp_ids) - Cardinality(common_ids)
    IN  (IF diff1 # 0 THEN << [msg |-> "missing IDs in the hypothesis set", diff |-> diff1] >>
         ELSE <<>>)
        \o (IF diff2 # 0 THEN << [msg |-> "missing IDs in the reference set", diff |-> diff2] >>
            ELSE <<>>)

\* join_ref_hyp with an empty text, not None, for a missing hypothesis.
join_ref_hyp_EmptyHyp(id_to_ref_, id_to_hyp_) ==
    [i \in 1..Len(id_to_ref_) |->
        [id  |-> id_to_ref_[i].k,
         ref |-> id_to_ref_[i].v,
         hyp |-> Get(id_to_hyp_, id_to_ref_[i].k, <<>>)]]

\* [{'id': id_, 'ref': id_to_ref[id_], 'hyp': id_to_hyp.get(id_)} for id_ in id_to_ref]
join_ref_hyp(id_to_ref_, id_to_hyp_) ==
    [i \in 1..Len(id_to_ref_) |->
        [id  |-> id_to_ref_[i].k,
         ref |-> id_to_ref_[i].v,
         hyp |-> Get(id_to_hyp_, id_to_ref_[i].k, None)]]

\* errors[sym][column] += 1 on a defaultdict of defaultdict(int)
IncCell(d, sym, column) ==
    LET inner == Get(d, sym, <<>>)
    IN  Put(d, sym, Put(inner, column, Get(inner, column, 0) + 1))

\* The fold without the test of line 136: every pair counts for its ref.
FoldErrors_TotalUnguarded(errors_, ref, hyp) ==
    LET e1 == IncCell(errors_, ref, "TOTAL_TRUE_COUNT")
    IN  IF ref = hyp THEN IncCell(e1, ref, "OK")
        ELSE IF ref = GAP_CHAR THEN IncCell(e1, hyp, "INSERTION")
        ELSE IF hyp = GAP_CHAR THEN IncCell(e1, ref, "DELETION")
        ELSE IncCell(e1, ref, "SUBSTITUTION")

\* The fold with the insertion of line 141 attributed to ref, the gap marker.
FoldErrors_InsertionOnRef(errors_, ref, hyp) ==
    LET e1 == IF ref # GAP_CHAR THEN IncCell(errors_, ref, "TOTAL_TRUE_COUNT") ELSE errors_
    IN  IF ref = hyp THEN IncCell(e1, ref, "OK")
        ELSE IF ref = GAP_CHAR THEN IncCell(e1, ref, "INSERTION")
        ELSE IF hyp = GAP_CHAR THEN IncCell(e1, ref, "DELETION")
        ELSE IncCell(e1, ref, "SUBSTITUTION")

\* Lines 135-145: what one aligned pair adds to errors.
FoldErrors(errors_, ref, hyp) ==
    LET e1 == IF ref # GAP_CHAR THEN IncCell(errors_, ref, "TOTAL_TRUE_COUNT") ELSE errors_
    IN  IF ref = hyp THEN IncCell(e1, ref, "OK")
        ELSE IF ref = GAP_CHAR THEN IncCell(e1, hyp, "INSERTION")
        ELSE IF hyp = GAP_CHAR THEN IncCell(e1, ref, "DELETION")
        ELSE IncCell(e1, ref, "SUBSTITUTION")

\* Line 135 moved under the test for an error: a match is not counted.
FoldConfusions_ErrorsOnly(confusions_, ref, hyp) ==
    IF ref = hyp THEN confusions_ ELSE IncCell(confusions_, ref, hyp)

\* Line 135: confusions[ref][hyp] += 1
FoldConfusions(confusions_, ref, hyp) == IncCell(confusions_, ref, hyp)

\* The cells of one row: a function from the columns the row has a value in.
Cells(inner) == [c \in Keys(inner) |-> Get(inner, c, 0)]

\* Lines 148-149: pd.DataFrame(errors).T, then df['LANG'] = lang.  A row per
\* key of errors, in its order; a cell the row's dict does not hold is NaN,
\* here absent from cells.  The order of the columns is not modelled.
ErrorTable(errors_, lang_) ==
    [columns |-> UNION {Keys(errors_[i].v) : i \in DOMAIN errors_} \cup {"LANG"},
     rows    |-> [i \in 1..Len(errors_) |->
                    [index |-> errors_[i].k, cells |-> Cells(errors_[i].v), LANG |-> lang_]]]

\* Lines 150-154: one row per (ref, hyp) of confusions, ref-major, in dict order.
\* errors[ref]['TOTAL_TRUE_COUNT'] reads a defaultdict: 0 when never counted.
RECURSIVE ConfusionRows(_, _, _, _, _)
ConfusionRows(confusions_, errors_, lang_, i, j) ==
    IF i > Len(confusions_) THEN <<>>
    ELSE IF j > Len(confusions_[i].v) THEN ConfusionRows(confusions_, errors_, lang_, i + 1, 1)
    ELSE << [ref       |-> confusions_[i].k,
             hyp       |-> confusions_[i].v[j].k,
             count     |-> confusions_[i].v[j].v,
             total_ref |-> Get(Get(errors_, confusions_[i].k, <<>>), "TOTAL_TRUE_COUNT", 0),
             lang      |-> lang_] >>
         \o ConfusionRows(confusions_, errors_, lang_, i, j + 1)

ConfusionColumns == {"ref", "hyp", "count", "total_ref", "lang"}

ConfusionTable(confusions_, errors_, lang_) ==
    LET rows == ConfusionRows(confusions_, errors_, lang_, 1, 1)
    IN  [columns |-> IF rows = <<>> THEN {} ELSE ConfusionColumns, rows |-> rows]

\* The reads of line 151 leave their mark on the defaultdicts: a ref never
\* counted (the gap marker) gets a row with TOTAL_TRUE_COUNT 0 in errors.
RECURSIVE TouchTotals(_, _, _)
TouchTotals(errors_, confusions_, i) ==
    IF i > Len(confusions_) THEN errors_
    ELSE LET ref == confusions_[i].k
             inner == Get(errors_, ref, <<>>)
             inner2 == IF Has(inner, "TOTAL_TRUE_COUNT") THEN inner
                       ELSE Put(inner, "TOTAL_TRUE_COUNT", 0)
         IN  TouchTotals(Put(errors_, ref, inner2), confusions_, i + 1)

(***************************************************************************)
(* compute_confusions as a function of its arguments (what a caller such   *)
(* as process_asr_results gets back): the same steps as the actions below. *)
(***************************************************************************)
\* Lines 96-127: the alignments of the items that have a hypothesis and
\* whose alignment is not empty.
RECURSIVE AlignAll(_, _, _, _)
AlignAll(pairs, remove_pattern, scoring_method, bases_) ==
    IF pairs = <<>> THEN <<>>
    ELSE IF Head(pairs).hyp = None
         THEN AlignAll(Tail(pairs), remove_pattern, scoring_method, bases_)
         ELSE LET ali == align(NormaliseSide(Head(pairs).ref, remove_pattern, scoring_method, bases_),
                               NormaliseSide(Head(pairs).hyp, remove_pattern, scoring_method, bases_),
                               GAP_CHAR)
              IN  (IF ali = <<>> THEN <<>> ELSE << ali >>)
                      \o AlignAll(Tail(pairs), remove_pattern, scoring_method, bases_)

\* The condition line 134 asserts not to hold.
IsGapPair_Never(ref, hyp) == FALSE

IsGapPair(ref, hyp) == ref = GAP_CHAR /\ hyp = GAP_CHAR

\* Lines 130-145 over all alignments; raised is set by the assertion.
RECURSIVE FoldAll(_, _)
FoldAll(pairs, acc) ==
    IF pairs = <<>> \/ acc.raised # None THEN acc
    ELSE LET ref == Head(pairs)[1]
             hyp == Head(pairs)[2]
         IN  IF IsGapPair(ref, hyp)
             THEN [acc EXCEPT !.raised = <<"AssertionError">>]
             ELSE FoldAll(Tail(pairs),
                          [raised     |-> None,
                           errors     |-> FoldErrors(acc.errors, ref, hyp),
                           confusions |-> FoldConfusions(acc.confusions, ref, hyp)])

ComputeConfusions(pairs, lang_, ignore_symbols_, scoring_method_, bases_) ==
    IF ignore_symbols_ = None
    THEN [raised |-> <<"TypeError">>, df |-> None, confusions_df |-> None]
    ELSE LET alis_ == AlignAll(pairs, get_ignored_symbols_re(ignore_symbols_),
                               scoring_method_, bases_)
             acc   == FoldAll(Concat(alis_), [raised |-> None, errors |-> <<>>, confusions |-> <<>>])
         IN  IF acc.raised # None
             THEN [raised |-> acc.raised, df |-> None, confusions_df |-> None]
             ELSE [raised        |-> None,
                   df            |-> ErrorTable(acc.errors, lang_),
                   confusions_df |-> ConfusionTable(acc.confusions, acc.errors, lang_)]

(***************************************************************************)
(* discophone.py: aggregate_expts and aggregate_confusions                 *)
(*                                                                         *)
(* A DataFrame is [columns, rows]; a call returns [raised, columns, rows]. *)
(* An experiment key is <<tag, AM, LM, tok_type>>, each a string, LM       *)
(* possibly None.                                                          *)
(***************************************************************************)
Raise(exception) == [raised |-> << exception >>, columns |-> {}, rows |-> <<>>]

\* The value of a result variable before the call.
NotCalled == [raised |-> <<"not called">>, columns |-> {}, rows |-> <<>>]

\* pd.concat(frames) of a non-empty list: the rows in order, the union of
\* the columns.
RECURSIVE ConcatRows(_)
ConcatRows(frames) ==
    IF frames = <<>> THEN <<>> ELSE Head(frames).rows \o ConcatRows(Tail(frames))

\* pd.concat that keeps the last frame only.
ConcatFrames_LastOnly(frames) == frames[Len(frames)]

ConcatFrames(frames) ==
    [columns |-> UNION {frames[i].columns : i \in DOMAIN frames},
     rows    |-> ConcatRows(frames)]

\* Lines 123-129: d.reset_index(), and 'index' renamed to 'token'.
ResetIndex(d) ==
    [columns |-> d.columns \cup {"token"},
     rows    |-> [i \in DOMAIN d.rows |->
                    [token |-> d.rows[i].index, cells |-> d.rows[i].cells,
                     LANG |-> d.rows[i].LANG]]]

\* Line 134 without its filter.
DropIgnored_Nothing(frame) == frame

\* Line 134: df[~df.token.isin(IGNORED_SYMBOLS)]
DropIgnored(frame) ==
    LET Kept(row) == \A i \in DOMAIN IGNORED_SYMBOLS : row.token # IGNORED_SYMBOLS[i]
    IN  [columns |-> frame.columns, rows |-> SelectSeq(frame.rows, Kept)]

TagColumns == {"SYSTEM", "AM", "LM", "TOKEN_TYPE", "EXP"}

\* f'{tag}_{AM}_{LM}_{tok_type}'; str(None) is 'None'.
ExpName(key) == key[1] \o <<"_">> \o key[2] \o <<"_">> \o key[3] \o <<"_">> \o key[4]

\* Lines 140-144: the five columns of the experiment key, on error rows.
TagErrors(frame, key) ==
    [columns |-> frame.columns \cup TagColumns,
     rows    |-> [i \in DOMAIN frame.rows |->
                    [token      |-> frame.rows[i].token,
                     cells      |-> frame.rows[i].cells,
                     LANG       |-> frame.rows[i].LANG,
                     SYSTEM     |-> key[1],
                     AM         |-> key[2],
                     LM         |-> key[3],
                     TOKEN_TYPE |-> key[4],
                     EXP        |-> ExpName(key)]]]

\* Lines 108-112: the same on confusion rows.
TagConfusions(frame, key) ==
    [columns |-> frame.columns \cup TagColumns,
     rows    |-> [i \in DOMAIN frame.rows |->
                    [ref        |-> frame.rows[i].ref,
                     hyp        |-> frame.rows[i].hyp,
                     count      |-> frame.rows[i].count,
                     total_ref  |-> frame.rows[i].total_ref,
                     lang       |-> frame.rows[i].lang,
                     SYSTEM     |-> key[1],
                     AM         |-> key[2],
                     LM         |-> key[3],
                     TOKEN_TYPE |-> key[4],
                     EXP        |-> ExpName(key)]]]

\* The columns lines 149-152 read as attributes of df, in that order.
FilledColumns == <<"TOTAL_TRUE_COUNT", "OK", "DELETION", "SUBSTITUTION", "INSERTION">>

\* Lines 149-152 on one row: where TOTAL_TRUE_COUNT is not NaN, a NaN in
\* OK, DELETION, SUBSTITUTION or INSERTION becomes 0.
ZeroFillRow(row) ==
    IF "TOTAL_TRUE_COUNT" \in DOMAIN row.cells
    THEN [row EXCEPT !.cells =
            [c \in DOMAIN row.cells \cup {"OK", "DELETION", "SUBSTITUTION", "INSERTION"} |->
                IF c \in DOMAIN row.cells THEN row.cells[c] ELSE 0]]
    ELSE row

\* Line 154: df[~df.token.str.contains('<')]
DropMarkup(rows) ==
    LET Kept(row) == \A i \in DOMAIN row.token : row.token[i] # "<"
    IN  SelectSeq(rows, Kept)

\* aggregate_expts(expt_dfs): expt_dfs is a dict from key to list of error
\* tables.  pd.concat of an empty list raises ValueError; df.OK of a frame
\* without that column raises AttributeError.
aggregate_expts(expt_dfs_) ==
    IF \E i \in DOMAIN expt_dfs_ : expt_dfs_[i].v = <<>> THEN Raise("ValueError")
    ELSE IF expt_dfs_ = <<>> THEN Raise("ValueError")
    ELSE LET to_concat ==
                [i \in DOMAIN expt_dfs_ |->
                    TagErrors(DropIgnored(ConcatFrames(
                                  [j \in DOMAIN expt_dfs_[i].v |-> ResetIndex(expt_dfs_[i].v[j])])),
                              expt_dfs_[i].k)]
             merged == ConcatFrames(to_concat)
         IN  IF \E c \in DOMAIN FilledColumns : FilledColumns[c] \notin merged.columns
             THEN Raise("AttributeError")
             ELSE [raised  |-> None,
                   columns |-> merged.columns,
                   rows    |-> DropMarkup([i \in DOMAIN merged.rows |-> ZeroFillRow(merged.rows[i])])]

\* aggregate_confusions(conf_dfs): conf_dfs is a dict from key to list of
\* confusion tables.
aggregate_confusions(conf_dfs_) ==
    IF \E i \in DOMAIN conf_dfs_ : conf_dfs_[i].v = <<>> THEN Raise("ValueError")
    ELSE IF conf_dfs_ = <<>> THEN Raise("ValueError")
    ELSE LET to_concat ==
                [i \in DOMAIN conf_dfs_ |->
                    TagConfusions(ConcatFrames(conf_dfs_[i].v), conf_dfs_[i].k)]
             merged == ConcatFrames(to_concat)
         IN  [raised |-> None, columns |-> merged.columns, rows |-> merged.rows]

\* pd.concat returns the one frame it was given, not a copy.
ConcatShares_Single(frames) == IF Len(frames) = 1 THEN {1} ELSE {}

\* The frames of the list that share their data with what pd.concat(frames)
\* returns: none, the result is a new frame that holds copies.
ConcatShares(frames) == {}

\* The dict aggregate_confusions was given, after the call: lines 108-112
\* set the tag columns in place on the frame pd.concat returned.
ConfusionInputsAfter(conf_dfs_) ==
    IF \E i \in DOMAIN conf_dfs_ : conf_dfs_[i].v = <<>> THEN conf_dfs_
    ELSE [i \in DOMAIN conf_dfs_ |->
            [k |-> conf_dfs_[i].k,
             v |-> [j \in DOMAIN conf_dfs_[i].v |->
                      IF j \in ConcatShares(conf_dfs_[i].v)
                      THEN TagConfusions(conf_dfs_[i].v[j], conf_dfs_[i].k)
                      ELSE conf_dfs_[i].v[j]]]]

\* The dict aggregate_expts was given, after the call: lines 121-136 bind
\* the local name to new dicts of the new frames that reset_index, concat,
\* rename and the selection by mask return; lines 140-154 act on those.
ExptInputsAfter(expt_dfs_) == expt_dfs_

(***************************************************************************)
(* State.                                                                  *)
(***************************************************************************)
VARIABLES
    cls_phone,      \* the argument of the last classifier calls
    cls_place,      \* what determine_place returned for it
    cls_manner,     \* what determine_manner returned for it
    cls_base,       \* what determine_base returned for it
    id_to_ref,      \* process_asr_results: the reference texts by utterance ID
    id_to_hyp,      \* process_asr_results: the hypothesis texts by utterance ID
    lang,           \* compute_confusions: its arguments ...
    ignore_symbols,
    scoring_method,
    pc,             \* where join_ref_hyp / compute_confusions stands
    log,            \* the warnings logged so far
    sequence_pairs, \* what join_ref_hyp returned
    remove_pattern, \* compute_confusions: its locals ...
    item,           \* the index of the next item of sequence_pairs
    ref_seq,        \* the local ref of the last item, as handed to align
    hyp_seq,        \* the local hyp of the last item, as handed to align
    alis,
    ali_i,          \* the index of the alignment being parsed
    pair_i,         \* the index of the next pair of that alignment
    errors,
    confusions,
    df,             \* the error table returned
    confusions_df,  \* the confusion table returned
    expt_dfs,       \* the error tables by experiment key
    expt_confusions,\* the confusion tables by experiment key
    agg_df,         \* what aggregate_expts returned or raised
    agg_conf_df,    \* what aggregate_confusions returned or raised
    read_fn,        \* "read_e2e" or "read_hybrid"
    read_expts,     \* the experiments of the loops: key and (ref, hyp) path pairs
    read_pc,        \* where read_e2e / read_hybrid is
    expt_i,         \* the experiment of the current loop iteration
    futures,        \* the futures of the jobs ex.map submitted
    results,        \* the results the iterator of ex.map has yielded
    read_raised     \* the exception that left the function, or None

clsVars == <<cls_phone, cls_place, cls_manner, cls_base>>
inVars == <<id_to_ref, id_to_hyp, lang, ignore_symbols, scoring_method>>
corpVars == <<id_to_ref, id_to_hyp, lang, ignore_symbols, scoring_method, pc, log,
              sequence_pairs, remove_pattern, item, ref_seq, hyp_seq, alis, ali_i, pair_i,
              errors, confusions, df, confusions_df>>
aggVars == <<expt_dfs, expt_confusions, agg_df, agg_conf_df>>
readVars == <<read_fn, read_expts, read_pc, expt_i, futures, results, read_raised>>
vars == <<cls_phone, cls_place, cls_manner, cls_base,
          id_to_ref, id_to_hyp, lang, ignore_symbols, scoring_method, pc, log,
          sequence_pairs, remove_pattern, item, ref_seq, hyp_seq, alis, ali_i, pair_i,
          errors, confusions, df, confusions_df,
          expt_dfs, expt_confusions, agg_df, agg_conf_df,
          read_fn, read_expts, read_pc, expt_i, futures, results, read_raised>>

\* No classifier call is in progress.
ClassifyIdle ==
    /\ cls_phone = None
    /\ cls_place = None
    /\ cls_manner = None
    /\ cls_base = None

\* The locals of a compute_confusions call that has not started.
CorpusLocalsUnset ==
    /\ log = <<>>
    /\ sequence_pairs = <<>>
    /\ remove_pattern = None
    /\ item = 1
    /\ ref_seq = None
    /\ hyp_seq = None
    /\ alis = <<>>
    /\ ali_i = 1
    /\ pair_i = 1
    /\ errors = <<>>
    /\ confusions = <<>>
    /\ df = None
    /\ confusions_df = None

\* No corpus is being processed.
CorpusIdle ==
    /\ id_to_ref = <<>>
    /\ id_to_hyp = <<>>
    /\ lang = "Zulu"
    /\ ignore_symbols = None
    /\ scoring_method = "per"
    /\ pc = "idle"
    /\ CorpusLocalsUnset

\* No aggregation is in progress.
AggIdle ==
    /\ expt_dfs = <<>>
    /\ expt_confusions = <<>>
    /\ agg_df = NotCalled
    /\ agg_conf_df = NotCalled

\* No experiment directory is being read.
ReadIdle ==
    /\ read_fn = "read_e2e"
    /\ read_expts = <<>>
    /\ read_pc = "idle"
    /\ expt_i = 1
    /\ futures = <<>>
    /\ results = <<>>
    /\ read_raised = None

(***************************************************************************)
(* The classifiers, called on any symbol, any number of times.             *)
(***************************************************************************)
SymbolAtoms == {"t", "a", "||", "@r", ":", "'", "*"}
Symbols == SeqsUpTo(SymbolAtoms, MaxSymLen)

InitClassify == ClassifyIdle /\ CorpusIdle /\ AggIdle /\ ReadIdle

\* One call of each classifier on the same symbol.  The default arguments
\* are the module's tables; PHONE_BASES is iterated in any order.
Classify ==
    /\ cls_phone = None
    /\ \E phone \in Symbols, order \in BaseOrders :
        /\ cls_phone' = phone
        /\ cls_place' = determine_place(phone, phone_to_place)
        /\ cls_manner' = determine_manner(phone, phone_to_manner)
        /\ cls_base' = determine_base(phone, order)
    /\ UNCHANGED <<corpVars, aggVars, readVars>>

\* The calls have returned; nothing of them is kept.
ClassifyReturn ==
    /\ cls_phone # None
    /\ cls_phone' = None
    /\ cls_place' = None
    /\ cls_manner' = None
    /\ cls_base' = None
    /\ UNCHANGED <<corpVars, aggVars, readVars>>

NextClassify == Classify \/ ClassifyReturn

SpecClassify == InitClassify /\ [][NextClassify]_vars

(***************************************************************************)
(* One corpus: join_ref_hyp, then compute_confusions (lines 175-177 of     *)
(* process_asr_results), step by step.                                     *)
(***************************************************************************)
\* The texts of a small corpus: "a", "t", "a t".
CorpusTexts == { <<"a">>, <<"t">>, <<"a", " ", "t">> }

\* The texts that exercise the normalisation: the stress and length marks,
\* an unregistered phone, a phone of one table only, the silence marker with
\* and without spaces around it.
NormTexts ==
    { <<>>,
      <<"'", "a", ":", " ", "t">>,
      <<":", " ", "a">>,
      <<"@r", " ", "?", "a">>,
      SILENCE \o <<" ", "a">>,
      <<"a", " ">> \o SILENCE \o <<" ", "t">>,
      <<"t">> \o SILENCE }

IgnoreChoices == { None, <<>>, << SILENCE >>, IGNORED_SYMBOLS }

\* The dicts over IDs among 1..n, in file order, with texts from T.
RECURSIVE DictsOver(_, _)
DictsOver(n, T) ==
    IF n = 0 THEN { <<>> }
    ELSE LET shorter == DictsOver(n - 1, T)
         IN  shorter \cup {Append(d, [k |-> n, v |-> t]) : d \in shorter, t \in T}

\* The hypothesis file may hold one utterance more than the reference file.
InitCorpus ==
    /\ id_to_ref \in DictsOver(MaxUtts, CorpusTexts)
    /\ id_to_hyp \in DictsOver(MaxUtts + 1, CorpusTexts)
    /\ ignore_symbols = IGNORED_SYMBOLS
    /\ scoring_method = "per"

\* The texts in which the reserved gap marker is a token: "a", "*", "a *".
GapTexts == { <<"a">>, <<"*">>, <<"a", " ", "*">> }

\* A corpus whose files hold the gap marker as a token.
InitGap ==
    /\ id_to_ref \in DictsOver(MaxUtts, GapTexts)
    /\ id_to_hyp \in DictsOver(MaxUtts, GapTexts)
    /\ ignore_symbols = IGNORED_SYMBOLS
    /\ scoring_method = "per"

InitNorm ==
    /\ id_to_ref \in {<< [k |-> 1, v |-> t] >> : t \in NormTexts}
    /\ id_to_hyp \in {<< [k |-> 1, v |-> t] >> : t \in NormTexts}
    /\ ignore_symbols \in IgnoreChoices
    /\ scoring_method \in {"per", "pter", "bper"}

Init ==
    /\ ClassifyIdle
    /\ AggIdle
    /\ ReadIdle
    /\ InitCorpus \/ InitNorm \/ InitGap
    /\ lang = "Zulu"
    /\ pc = "join"
    /\ CorpusLocalsUnset

\* Line 175: grouped_ref_hyp = join_ref_hyp(id_to_ref=ref, id_to_hyp=hyp)
JoinRefHyp ==
    /\ pc = "join"
    /\ sequence_pairs' = join_ref_hyp(id_to_ref, id_to_hyp)
    /\ log' = log \o JoinWarnings(id_to_ref, id_to_hyp)
    /\ pc' = "compile"
    /\ UNCHANGED <<clsVars, aggVars, readVars, inVars, remove_pattern, item, ref_seq, hyp_seq, alis, ali_i,
                   pair_i, errors, confusions, df, confusions_df>>

\* Where compute_confusions goes once item next is the next of the loop of line 96.
PcAfterItem(next, alis_) ==
    IF next <= Len(sequence_pairs) THEN "items"
    ELSE IF alis_ = <<>> THEN "make_df"
    ELSE "fold"

\* Line 92: remove_pattern = get_ignored_symbols_re(ignore_symbols);
\* '|'.join(None) raises TypeError.
CompilePattern ==
    /\ pc = "compile"
    /\ IF ignore_symbols = None
       THEN /\ pc' = "TypeError"
            /\ UNCHANGED remove_pattern
       ELSE /\ remove_pattern' = get_ignored_symbols_re(ignore_symbols)
            /\ pc' = PcAfterItem(1, <<>>)
    /\ UNCHANGED <<clsVars, aggVars, readVars, inVars, log, sequence_pairs, item, ref_seq, hyp_seq, alis,
                   ali_i, pair_i, errors, confusions, df, confusions_df>>

\* The orders in which PHONE_BASES may be iterated, where it is iterated at all.
OrdersUsed(scoring_method_) == IF scoring_method_ = "bper" THEN BaseOrders ELSE { <<>> }

\* Lines 96-127: one item of sequence_pairs.  The frozenset PHONE_BASES is
\* iterated in an order the code does not choose.
AlignItem ==
    /\ pc = "items"
    /\ item <= Len(sequence_pairs)
    /\ IF sequence_pairs[item].hyp = None
       THEN /\ pc' = PcAfterItem(item + 1, alis)
            /\ UNCHANGED <<ref_seq, hyp_seq, alis>>
       ELSE \E order \in OrdersUsed(scoring_method) :
            LET ref == NormaliseSide(sequence_pairs[item].ref, remove_pattern, scoring_method, order)
                hyp == NormaliseSide(sequence_pairs[item].hyp, remove_pattern, scoring_method, order)
                ali == align(ref, hyp, GAP_CHAR)
                alis_ == IF ali = <<>> THEN alis ELSE Append(alis, ali)
            IN  /\ ref_seq' = ref
                /\ hyp_seq' = hyp
                /\ alis' = alis_
                /\ pc' = PcAfterItem(item + 1, alis_)
    /\ item' = item + 1
    /\ UNCHANGED <<clsVars, aggVars, readVars, inVars, log, sequence_pairs, remove_pattern, ali_i, pair_i,
                   errors, confusions, df, confusions_df>>

\* Lines 133-145: one aligned pair.
FoldPair ==
    /\ pc = "fold"
    /\ LET ref == alis[ali_i][pair_i][1]
           hyp == alis[ali_i][pair_i][2]
       IN  IF IsGapPair(ref, hyp)
           THEN /\ pc' = "AssertionError"
                /\ UNCHANGED <<errors, confusions, ali_i, pair_i>>
           ELSE /\ confusions' = FoldConfusions(confusions, ref, hyp)
                /\ errors' = FoldErrors(errors, ref, hyp)
                /\ IF pair_i < Len(alis[ali_i])
                   THEN pair_i' = pair_i + 1 /\ ali_i' = ali_i /\ pc' = "fold"
                   ELSE IF ali_i < Len(alis)
                   THEN pair_i' = 1 /\ ali_i' = ali_i + 1 /\ pc' = "fold"
                   ELSE pair_i' = pair_i /\ ali_i' = ali_i /\ pc' = "make_df"
    /\ UNCHANGED <<clsVars, aggVars, readVars, inVars, log, sequence_pairs, remove_pattern, item, ref_seq,
                   hyp_seq, alis, df, confusions_df>>

\* Lines 148-156: the two DataFrames, and the return.
MakeDataFrames ==
    /\ pc = "make_df"
    /\ df' = ErrorTable(errors, lang)
    /\ confusions_df' = ConfusionTable(confusions, errors, lang)
    /\ errors' = TouchTotals(errors, confusions, 1)
    /\ pc' = "done"
    /\ UNCHANGED <<clsVars, aggVars, readVars, inVars, log, sequence_pairs, remove_pattern, item, ref_seq,
                   hyp_seq, alis, ali_i, pair_i, confusions>>

Next == JoinRefHyp \/ CompilePattern \/ AlignItem \/ FoldPair \/ MakeDataFrames

Spec == Init /\ [][Next]_vars

(***************************************************************************)
(* The aggregation of the tables of several experiments.                   *)
(***************************************************************************)
HES == <<"<", "h", "e", "s", ">">>

\* Sample corpora, as sequence_pairs with a language: utterances with all
\* four error kinds; a perfect one; one with markup and ignored symbols;
\* one with an insertion only; one without utterances.
SampleCorpora ==
    { [lang |-> "Zulu",
       pairs |-> << [id |-> 1, ref |-> <<"a", " ", "t">>, hyp |-> <<"a">>],
                    [id |-> 2, ref |-> <<"a">>, hyp |-> <<"t", " ", "t">>] >>],
      [lang |-> "Lao",
       pairs |-> << [id |-> 1, ref |-> <<"a">>, hyp |-> <<"a">>] >>],
      [lang |-> "Tamil",
       pairs |-> << [id |-> 1, ref |-> <<"-", " ">> \o HES \o <<" ">> \o SILENCE \o <<" ", "a", " ", "t">>,
                               hyp |-> <<"-", " ">> \o HES \o <<" ">> \o SILENCE \o <<" ", "a">>],
                    [id |-> 2, ref |-> <<"a">>, hyp |-> <<"t", " ", ">">>] >>],
      [lang |-> "Igbo",
       pairs |-> << [id |-> 1, ref |-> <<>>, hyp |-> <<"a">>] >>],
      [lang |-> "Dholuo",
       pairs |-> << >>] }

\* What compute_confusions returns for them with nothing ignored.
SampleTables ==
    {ComputeConfusions(c.pairs, c.lang, <<>>, "per", <<>>) : c \in SampleCorpora}

ExptKeys ==
    { << <<"e2e">>, <<"mono">>, None, <<"per">> >>,
      << <<"hybrid">>, <<"mono">>, <<"tgsmall">>, <<"per">> >> }

\* The dicts from some of the keys, in any order, to lists of at most
\* MaxCorpora sample results.
ExptDicts ==
    LET lists == SeqsUpTo(SampleTables, MaxCorpora)
    IN  { <<>> }
        \cup {<< [k |-> key, v |-> l] >> : key \in ExptKeys, l \in lists}
        \cup UNION {{<< [k |-> k1, v |-> l1], [k |-> k2, v |-> l2] >> :
                        k2 \in ExptKeys \ {k1}, l1 \in lists, l2 \in lists} : k1 \in ExptKeys}

InitAgg ==
    /\ ClassifyIdle
    /\ CorpusIdle
    /\ ReadIdle
    /\ \E d \in ExptDicts :
        /\ expt_dfs = [i \in DOMAIN d |->
                          [k |-> d[i].k, v |-> [j \in DOMAIN d[i].v |-> d[i].v[j].df]]]
        /\ expt_confusions = [i \in DOMAIN d |->
                          [k |-> d[i].k, v |-> [j \in DOMAIN d[i].v |-> d[i].v[j].confusions_df]]]
    /\ agg_df = NotCalled
    /\ agg_conf_df = NotCalled

\* df = aggregate_expts(dfs)
AggregateExpts ==
    /\ agg_df = NotCalled
    /\ agg_df' = aggregate_expts(expt_dfs)
    /\ expt_dfs' = ExptInputsAfter(expt_dfs)
    /\ UNCHANGED <<clsVars, corpVars, readVars, expt_confusions, agg_conf_df>>

\* conf_df = aggregate_confusions(confs)
AggregateConfusions ==
    /\ agg_conf_df = NotCalled
    /\ agg_conf_df' = aggregate_confusions(expt_confusions)
    /\ expt_confusions' = ConfusionInputsAfter(expt_confusions)
    /\ UNCHANGED <<clsVars, corpVars, readVars, expt_dfs, agg_df>>

NextAgg == AggregateExpts \/ AggregateConfusions

SpecAgg == InitAgg /\ [][NextAgg]_vars

(***************************************************************************)
(* discophone.py: read_e2e and read_hybrid.  The jobs of one experiment    *)
(* are submitted to the pool by ex.map; the workers finish them in any     *)
(* order; the iterator of ex.map yields their results in the order of the  *)
(* paths and raises the exception of a job that failed.                    *)
(***************************************************************************)
\* The (reference path, hypothesis path) pairs on disk: what join_ref_hyp
\* returns for their files and the language of the path, or a file that
\* cannot be read.
DiskCorpora ==
    {[readable |-> TRUE, lang |-> c.lang, pairs |-> c.pairs] :
        c \in {c \in SampleCorpora : c.lang \in {"Zulu", "Lao"}}}
    \cup {[readable |-> FALSE, lang |-> "Igbo", pairs |-> <<>>]}

\* process_asr_results(ref_path, hyp_path, ignored_symbols, scoring_method):
\* it returns four values.
process_asr_results(corpus, ignored_symbols, scoring_method_, bases_) ==
    IF ~ corpus.readable THEN [raised |-> <<"OSError">>, value |-> <<>>]
    ELSE LET r == ComputeConfusions(corpus.pairs, corpus.lang, ignored_symbols,
                                    scoring_method_, bases_)
         IN  IF r.raised # None THEN [raised |-> r.raised, value |-> <<>>]
             ELSE [raised |-> None,
                   value  |-> <<corpus.pairs, corpus.lang, r.df, r.confusions_df>>]

\* zip(*results) of tuples of one length.
Transpose(rs) ==
    IF rs = <<>> THEN <<>>
    ELSE [c \in DOMAIN rs[1] |-> [j \in DOMAIN rs |-> rs[j][c]]]

ScoringMethods == << <<"per">>, <<"pter">>, <<"bper">> >>
ExptNames == << <<"mono">>, <<"multi">>, <<"cross">> >>

\* The keys in the order of the loops of lines 24-25 and 53-54.
LoopKeys(tag, subexpt) ==
    [n \in 1..(Len(ScoringMethods) * Len(ExptNames)) |->
        << tag, ExptNames[((n - 1) % Len(ExptNames)) + 1], subexpt,
           ScoringMethods[((n - 1) \div Len(ExptNames)) + 1] >>]

\* The scoring method of a key, as compute_confusions takes it.
MethodOf(key) == key[4][1]

\* read_e2e runs every iteration of its loops, the first MaxExpts of them
\* here; read_hybrid runs one per sub-experiment directory, possibly none.
InitRead ==
    /\ ClassifyIdle
    /\ CorpusIdle
    /\ AggIdle
    /\ read_fn \in {"read_e2e", "read_hybrid"}
    /\ \E n \in 0..MaxExpts :
        /\ read_fn = "read_e2e" => n = MaxExpts
        /\ \E js \in [1..n -> SeqsUpTo(DiskCorpora, MaxCorpora)] :
            read_expts =
                [i \in 1..n |->
                    [key  |-> IF read_fn = "read_e2e"
                              THEN LoopKeys(<<"e2e">>, None)[i]
                              ELSE LoopKeys(<<"hybrid">>, <<"tgsmall">>)[i],
                     jobs |-> js[i]]]
    /\ read_pc = "loop"
    /\ expt_i = 1
    /\ futures = <<>>
    /\ results = <<>>
    /\ read_raised = None

\* Lines 24-35 and 53-66: the next iteration submits its jobs; after the
\* last one the function returns (lines 39, 70).
Dispatch ==
    /\ read_pc = "loop"
    /\ IF expt_i > Len(read_expts)
       THEN /\ read_pc' = "returned"
            /\ UNCHANGED <<futures, results>>
       ELSE /\ futures' = [j \in DOMAIN read_expts[expt_i].jobs |->
                              [state |-> "pending", raised |-> None, value |-> <<>>]]
            /\ results' = <<>>
            /\ read_pc' = "map"
    /\ UNCHANGED <<clsVars, corpVars, aggVars, read_fn, read_expts, expt_i, read_raised>>

\* A worker finishes a job.  special_symbols is a set and PHONE_BASES a
\* frozenset: each is iterated in an order the code does not choose.
WorkerRun ==
    /\ \E j \in DOMAIN futures :
        /\ futures[j].state = "pending"
        /\ \E symbols \in Orders({IGNORED_SYMBOLS[i] : i \in DOMAIN IGNORED_SYMBOLS}),
              order \in OrdersUsed(MethodOf(read_expts[expt_i].key)) :
            LET r == process_asr_results(read_expts[expt_i].jobs[j], symbols,
                                         MethodOf(read_expts[expt_i].key), order)
            IN  futures' = [futures EXCEPT
                               ![j] = [state |-> "finished", raised |-> r.raised, value |-> r.value]]
    /\ UNCHANGED <<clsVars, corpVars, aggVars, read_fn, read_expts, read_pc, expt_i, results,
                   read_raised>>

\* list(ex.map(...)) takes the next result in the order of the paths.  The
\* exception of a failed job is raised here and leaves the function; the
\* jobs not yet started are cancelled, the running ones are waited for.
Collect ==
    /\ read_pc = "map"
    /\ Len(results) < Len(futures)
    /\ LET f == futures[Len(results) + 1]
       IN  /\ f.state = "finished"
           /\ IF f.raised # None
              THEN /\ read_raised' = f.raised
                   /\ read_pc' = "raised"
                   /\ \E cancelled \in SUBSET {j \in DOMAIN futures : futures[j].state = "pending"} :
                        futures' = [j \in DOMAIN futures |->
                                       IF j \in cancelled
                                       THEN [futures[j] EXCEPT !.state = "cancelled"]
                                       ELSE futures[j]]
                   /\ UNCHANGED results
              ELSE /\ results' = Append(results, f.value)
                   /\ UNCHANGED <<read_raised, read_pc, futures>>
    /\ UNCHANGED <<clsVars, corpVars, aggVars, read_fn, read_expts, expt_i>>

\* Lines 35-38 and 66-69: lang_dfs, lang_confusions = zip(*...), then the
\* two dict entries.  An unpacking of other than two values raises.
Unpack ==
    /\ read_pc = "map"
    /\ Len(results) = Len(futures)
    /\ LET columns == Transpose(results)
       IN  IF Len(columns) # 2
           THEN /\ read_raised' = <<"ValueError">>
                /\ read_pc' = "raised"
                /\ UNCHANGED <<expt_dfs, expt_confusions, expt_i>>
           ELSE /\ expt_dfs' = Put(expt_dfs, read_expts[expt_i].key, columns[1])
                /\ expt_confusions' = Put(expt_confusions, read_expts[expt_i].key, columns[2])
                /\ expt_i' = expt_i + 1
                /\ read_pc' = "loop"
                /\ UNCHANGED read_raised
    /\ UNCHANGED <<clsVars, corpVars, agg_df, agg_conf_df, read_fn, read_expts, futures, results>>

NextRead == Dispatch \/ WorkerRun \/ Collect \/ Unpack

SpecRead == InitRead /\ [][NextRead]_vars

(***************************************************************************)
(* Properties.                                                             *)
(***************************************************************************)
ErrorKinds == {"OK", "SUBSTITUTION", "DELETION", "INSERTION"}

\* A cell of a dict of dicts, 0 when absent.
Count(d, sym, column) == Get(Get(d, sym, <<>>), column, 0)

\* A cell of a row of a DataFrame, 0 when it is NaN.
Cell(row, column) == IF column \in DOMAIN row.cells THEN row.cells[column] ELSE 0

RECURSIVE SumSeq(_)
SumSeq(xs) == IF xs = <<>> THEN 0 ELSE Head(xs) + SumSeq(Tail(xs))

\* All aligned pairs of the corpus, in the order of the fold.
AllPairs == Concat(alis)

\* C1: in every row of the error table that has a TOTAL_TRUE_COUNT, and in
\* errors after every step of the fold, TOTAL_TRUE_COUNT is the sum of OK,
\* SUBSTITUTION and DELETION (an absent cell counts 0; INSERTION is no part).
C1_TotalIsSum ==
    /\ \A i \in DOMAIN errors :
        Has(errors[i].v, "TOTAL_TRUE_COUNT") =>
            Count(errors, errors[i].k, "TOTAL_TRUE_COUNT")
                = Count(errors, errors[i].k, "OK") + Count(errors, errors[i].k, "SUBSTITUTION")
                    + Count(errors, errors[i].k, "DELETION")
    /\ pc = "done" =>
        \A i \in DOMAIN df.rows :
            "TOTAL_TRUE_COUNT" \in DOMAIN df.rows[i].cells =>
                df.rows[i].cells["TOTAL_TRUE_COUNT"]
                    = Cell(df.rows[i], "OK") + Cell(df.rows[i], "SUBSTITUTION")
                        + Cell(df.rows[i], "DELETION")

\* C1's case: a returned table with a symbol counted over two utterances,
\* once matched and once deleted, and a reference symbol that was also
\* inserted.
C1_Witness ==
    /\ pc = "done"
    /\ \E i, j \in DOMAIN df.rows :
        /\ Cell(df.rows[i], "TOTAL_TRUE_COUNT") >= 2
        /\ Cell(df.rows[i], "OK") >= 1
        /\ Cell(df.rows[i], "DELETION") >= 1
        /\ Cell(df.rows[j], "INSERTION") >= 1
        /\ Cell(df.rows[j], "TOTAL_TRUE_COUNT") >= 1

\* What the pair (r, h) must add to the cell (sym, column) of errors.
ExpectedDelta(r, h, sym, column) ==
    IF column = "TOTAL_TRUE_COUNT" THEN (IF sym = r /\ r # GAP_CHAR THEN 1 ELSE 0)
    ELSE IF column = "OK" THEN (IF sym = r /\ r = h THEN 1 ELSE 0)
    ELSE IF column = "INSERTION" THEN (IF sym = h /\ r = GAP_CHAR /\ r # h THEN 1 ELSE 0)
    ELSE IF column = "DELETION" THEN (IF sym = r /\ h = GAP_CHAR /\ r # h THEN 1 ELSE 0)
    ELSE (IF sym = r /\ r # h /\ r # GAP_CHAR /\ h # GAP_CHAR THEN 1 ELSE 0)

\* C2, the consequence on the returned table: a symbol that is never a
\* reference symbol has INSERTION only, and the gap marker has no row.
C2_InsertedOnly ==
    pc = "done" =>
        \A i \in DOMAIN df.rows :
            /\ df.rows[i].index # GAP_CHAR
            /\ (\A k \in DOMAIN AllPairs : AllPairs[k][1] # df.rows[i].index)
                    => DOMAIN df.rows[i].cells = {"INSERTION"}

\* C2: folding one aligned pair (r, h) adds 1 to exactly one error kind: OK
\* of r when r = h, INSERTION of h when r is the gap, DELETION of r when h
\* is the gap, SUBSTITUTION of r otherwise; and 1 to TOTAL_TRUE_COUNT of r
\* iff r is not the gap.  No other cell changes, none is attributed to the
\* gap marker, and no row of the returned table is the gap marker's.
C2_OnePairOneKind ==
    /\ []C2_InsertedOnly
    /\ [][(pc = "fold" /\ pc' # "AssertionError") =>
        LET r == alis[ali_i][pair_i][1]
            h == alis[ali_i][pair_i][2]
            syms == Keys(errors) \cup Keys(errors') \cup {r, h}
        IN  /\ \A sym \in syms : \A column \in ErrorKinds \cup {"TOTAL_TRUE_COUNT"} :
                    Count(errors', sym, column) - Count(errors, sym, column)
                        = ExpectedDelta(r, h, sym, column)
            /\ Cardinality({<<sym, kind>> \in syms \X ErrorKinds :
                    Count(errors', sym, kind) # Count(errors, sym, kind)}) = 1
            /\ ~ Has(errors', GAP_CHAR)
            /\ UNION {Keys(errors'[i].v) : i \in DOMAIN errors'}
                    \subseteq ErrorKinds \cup {"TOTAL_TRUE_COUNT"}
            /\ confusions' # confusions
         ]_vars

\* C2's case: a returned table with a row that is an inserted symbol's only.
C2_Witness ==
    /\ pc = "done"
    /\ \E i \in DOMAIN df.rows : DOMAIN df.rows[i].cells = {"INSERTION"}
    /\ \E i \in DOMAIN df.rows : Cell(df.rows[i], "OK") >= 1

\* The entries of dict d whose key is in ids, in d's order.
Restrict(d, ids) == LET In(e) == e.k \in ids IN SelectSeq(d, In)

CommonIds == Keys(id_to_ref) \cap Keys(id_to_hyp)

\* C3: the tables returned are those of the utterances whose ID is in both
\* maps: an ID of one map only changes nothing and raises nothing (the only
\* exceptions compute_confusions raises here are that of ignore_symbols None
\* and that of a (gap, gap) pair of an utterance in both maps).
C3_OnlyCommonIds ==
    /\ pc = "AssertionError" =>
        \A order \in OrdersUsed(scoring_method) :
            ComputeConfusions(join_ref_hyp(Restrict(id_to_ref, CommonIds),
                                           Restrict(id_to_hyp, CommonIds)),
                              lang, ignore_symbols, scoring_method, order).raised
                = <<"AssertionError">>
    /\ pc = "TypeError" => ignore_symbols = None
    /\ pc = "done" =>
        \A order \in OrdersUsed(scoring_method) :
            LET common == ComputeConfusions(
                              join_ref_hyp(Restrict(id_to_ref, CommonIds),
                                           Restrict(id_to_hyp, CommonIds)),
                              lang, ignore_symbols, scoring_method, order)
            IN  /\ common.raised = None
                /\ df = common.df
                /\ confusions_df = common.confusions_df

\* C3's case: a reference with no hypothesis and a hypothesis with no
\* reference, both with text, beside an utterance that was scored.
C3_Witness ==
    /\ pc = "done"
    /\ \E i \in DOMAIN id_to_ref : id_to_ref[i].k \notin CommonIds /\ id_to_ref[i].v # <<>>
    /\ \E i \in DOMAIN id_to_hyp : id_to_hyp[i].k \notin CommonIds /\ id_to_hyp[i].v # <<>>
    /\ df.rows # <<>>
    /\ Len(log) = 2

\* s holds sub as a substring.
Contains(s, sub) == \E i \in 1..(Len(s) - Len(sub) + 1) : SubSeq(s, i, i + Len(sub) - 1) = sub

\* C4: with ignore_symbols None the normalisation does not raise, and no
\* symbol handed to the aligner holds the '<silence>' marker.
C4_DefaultStripsSilence ==
    ignore_symbols = None =>
        /\ pc # "TypeError"
        /\ ref_seq # None =>
            /\ \A i \in DOMAIN ref_seq : ~ Contains(ref_seq[i], SILENCE)
            /\ \A i \in DOMAIN hyp_seq : ~ Contains(hyp_seq[i], SILENCE)

\* The dict d with its entries in the order p of their positions.
Reordered(d, p) == [i \in DOMAIN d |-> d[p[i]]]

\* The sequences r1 and r2 hold the same rows the same number of times.
SameRows(r1, r2) ==
    \A x \in {r1[i] : i \in DOMAIN r1} \cup {r2[i] : i \in DOMAIN r2} :
        Cardinality({i \in DOMAIN r1 : r1[i] = x}) = Cardinality({i \in DOMAIN r2 : r2[i] = x})

\* The position in the dict d of the key whose EXP name the row carries.
KeyPosition(d, row) == CHOOSE i \in DOMAIN d : ExpName(d[i].k) = row.EXP

\* The rows come key by key, in the order of the keys of d.
InKeyOrder(d, rows) ==
    \A i \in DOMAIN rows : \A j \in DOMAIN rows :
        i < j => KeyPosition(d, rows[i]) <= KeyPosition(d, rows[j])

\* C5 as stated: with the keys supplied in any order, aggregate_expts and
\* aggregate_confusions return the identical table, the same rows in the
\* same sequence.
C5_SameSequenceAnyOrder ==
    \A p \in Orders(DOMAIN expt_dfs) :
        /\ agg_df # NotCalled => aggregate_expts(Reordered(expt_dfs, p)) = agg_df
        /\ agg_conf_df # NotCalled =>
                aggregate_confusions(Reordered(expt_confusions, p)) = agg_conf_df

\* C5 amended: with the keys supplied in any order, aggregate_expts and
\* aggregate_confusions raise the same exception or return the same columns
\* and the same rows the same number of times; the rows follow the order in
\* which the keys are supplied, key by key.
C5_SameRowsAnyOrder ==
    /\ \A p \in Orders(DOMAIN expt_dfs) :
        /\ agg_df # NotCalled =>
             LET other == aggregate_expts(Reordered(expt_dfs, p))
             IN  /\ other.raised = agg_df.raised
                 /\ other.columns = agg_df.columns
                 /\ SameRows(other.rows, agg_df.rows)
                 /\ InKeyOrder(Reordered(expt_dfs, p), other.rows)
        /\ agg_conf_df # NotCalled =>
             LET other == aggregate_confusions(Reordered(expt_confusions, p))
             IN  /\ other.raised = agg_conf_df.raised
                 /\ other.columns = agg_conf_df.columns
                 /\ SameRows(other.rows, agg_conf_df.rows)
                 /\ InKeyOrder(Reordered(expt_confusions, p), other.rows)

\* C5's case: two experiments, both with rows in both merged tables.
C5_Witness ==
    /\ Len(expt_dfs) = 2
    /\ agg_df.raised = None
    /\ agg_conf_df.raised = None
    /\ \A k \in DOMAIN expt_dfs :
        /\ \E i \in DOMAIN agg_df.rows : agg_df.rows[i].EXP = ExpName(expt_dfs[k].k)
        /\ \E i \in DOMAIN agg_conf_df.rows : agg_conf_df.rows[i].EXP = ExpName(expt_dfs[k].k)
    /\ aggregate_expts(Reordered(expt_dfs, <<2, 1>>)).rows # agg_df.rows

\* C6 as stated: on any collection of error tables (every experiment with
\* at least one table) aggregate_expts completes, and every row of its
\* result that has a TOTAL_TRUE_COUNT has a number in OK, DELETION,
\* SUBSTITUTION and INSERTION.
C6_CompletesZeroFilled ==
    (/\ agg_df # NotCalled
     /\ expt_dfs # <<>>
     /\ \A k \in DOMAIN expt_dfs : expt_dfs[k].v # <<>>) =>
        /\ agg_df.raised = None
        /\ \A i \in DOMAIN agg_df.rows :
            "TOTAL_TRUE_COUNT" \in DOMAIN agg_df.rows[i].cells =>
                {"OK", "DELETION", "SUBSTITUTION", "INSERTION"} \subseteq DOMAIN agg_df.rows[i].cells

\* All rows of the input tables with their keys, key by key, table by table.
InputRows(d) ==
    Concat([k \in DOMAIN d |->
        Concat([j \in DOMAIN d[k].v |->
            [r \in DOMAIN d[k].v[j].rows |-> [key |-> d[k].k, row |-> d[k].v[j].rows[r]]]])])

\* The merged row out is the input row in: its symbol, language and counts,
\* the tags of its key, and 0 in the cells that were filled.
IsMergedRow(out, in) ==
    /\ out.token = in.row.index
    /\ out.LANG = in.row.LANG
    /\ <<out.SYSTEM, out.AM, out.LM, out.TOKEN_TYPE>> = in.key
    /\ DOMAIN in.row.cells \subseteq DOMAIN out.cells
    /\ \A c \in DOMAIN out.cells :
        out.cells[c] = IF c \in DOMAIN in.row.cells THEN in.row.cells[c] ELSE 0

\* The merged rows are exactly the input rows that satisfy Kept, in order.
MergedAre(Kept(_)) ==
    LET kept == SelectSeq(InputRows(expt_dfs), Kept)
    IN  /\ Len(agg_df.rows) = Len(kept)
        /\ \A i \in DOMAIN kept : IsMergedRow(agg_df.rows[i], kept[i])

HasMarkup(token) == \E i \in DOMAIN token : token[i] = "<"

IsIgnored(token) == \E i \in DOMAIN IGNORED_SYMBOLS : IGNORED_SYMBOLS[i] = token

\* C7 as stated: the table aggregate_expts returns holds exactly the input
\* rows whose symbol does not contain '<'.
C7_OnlyMarkupDropped ==
    LET Kept(in) == ~ HasMarkup(in.row.index)
    IN  agg_df.raised = None => MergedAre(Kept)

\* C7 amended: the table aggregate_expts returns holds exactly the input
\* rows whose symbol neither is a member of IGNORED_SYMBOLS nor contains
\* '<'; every row whose symbol is such a member or contains '<' is dropped.
C7_IgnoredAndMarkupDropped ==
    LET Kept(in) == ~ IsIgnored(in.row.index) /\ ~ HasMarkup(in.row.index)
    IN  agg_df.raised = None => MergedAre(Kept)

\* C7's case: a returned table whose input had a row for '-', a row for
\* '<hes>' and a row that is kept.
C7_Witness ==
    /\ agg_df.raised = None
    /\ agg_df.rows # <<>>
    /\ \E i \in DOMAIN InputRows(expt_dfs) : InputRows(expt_dfs)[i].row.index = <<"-">>
    /\ \E i \in DOMAIN InputRows(expt_dfs) : InputRows(expt_dfs)[i].row.index = HES

\* No (gap, gap) pair has been counted, and none is in a returned table.
C11_NeverCounted ==
    /\ Get(Get(confusions, GAP_CHAR, <<>>), GAP_CHAR, 0) = 0
    /\ Count(errors, GAP_CHAR, "OK") = 0
    /\ pc = "AssertionError" =>
        /\ alis[ali_i][pair_i] = <<GAP_CHAR, GAP_CHAR>>
        /\ df = None
        /\ confusions_df = None
    /\ pc = "done" =>
        /\ \A k \in DOMAIN AllPairs : AllPairs[k] # <<GAP_CHAR, GAP_CHAR>>
        /\ \A i \in DOMAIN df.rows :
                df.rows[i].index = GAP_CHAR => "OK" \notin DOMAIN df.rows[i].cells
        /\ \A i \in DOMAIN confusions_df.rows :
                ~ (confusions_df.rows[i].ref = GAP_CHAR /\ confusions_df.rows[i].hyp = GAP_CHAR)

\* C11: when the fold reaches an aligned pair whose two sides are both the
\* gap marker, compute_confusions fails with AssertionError, counts nothing
\* for the pair and returns no table; no (gap, gap) pair is ever counted as
\* OK or as a confusion, and none is in a returned table.
C11_GapPairIsFatal ==
    /\ []C11_NeverCounted
    /\ [][(pc = "fold" /\ alis[ali_i][pair_i] = <<GAP_CHAR, GAP_CHAR>>) =>
            /\ pc' = "AssertionError"
            /\ errors' = errors
            /\ confusions' = confusions
            /\ df' = None
            /\ confusions_df' = None]_vars
    /\ [][pc = "AssertionError" => pc' = "AssertionError"]_vars

\* C11's case: the fold counted a pair, then failed on a (gap, gap) pair.
C11_Witness ==
    /\ pc = "AssertionError"
    /\ alis[ali_i][pair_i] = <<GAP_CHAR, GAP_CHAR>>
    /\ confusions # <<>>
    /\ df = None

\* The number of characters of the tokens before token i.
RECURSIVE CharsBefore(_, _)
CharsBefore(tokens, i) ==
    IF i = 1 THEN 0 ELSE CharsBefore(tokens, i - 1) + Len(tokens[i - 1])

\* seq is the characters of the tokens, one symbol each, in order.
IsCharacterStream(seq, tokens) ==
    /\ Len(seq) = SumSeq([i \in DOMAIN tokens |-> Len(tokens[i])])
    /\ \A i \in DOMAIN tokens : \A j \in DOMAIN tokens[i] :
            seq[CharsBefore(tokens, i) + j] = << tokens[i][j] >>

\* C12: in 'pter' mode the reference sequence handed to the aligner has as
\* many symbols as the 'per' tokens of the same text under the same ignore
\* pattern have characters, and is exactly those characters in order.
C12_DecomposedIsCharacters ==
    (scoring_method = "pter" /\ ref_seq # None) =>
        IsCharacterStream(ref_seq,
            NormaliseSide(sequence_pairs[item - 1].ref, remove_pattern, "per", <<>>))

\* C12's case: "'a: t" decomposed into four symbols.
C12_Witness ==
    /\ scoring_method = "pter"
    /\ sequence_pairs # <<>>
    /\ sequence_pairs[1].ref = <<"'", "a", ":", " ", "t">>
    /\ ref_seq = << <<"'">>, <<"a">>, <<":">>, <<"t">> >>

\* All rows of the input confusion tables, key by key, table by table.
InputConfusionRows(d) ==
    Concat([k \in DOMAIN d |-> Concat([j \in DOMAIN d[k].v |-> d[k].v[j].rows])])

\* The merged confusion table holds every input confusion row once, in
\* order, with its ref, hyp, count, total_ref and lang.
C14_ConfusionRowsKept ==
    agg_conf_df.raised = None =>
        LET in == InputConfusionRows(expt_confusions)
        IN  /\ Len(agg_conf_df.rows) = Len(in)
            /\ \A i \in DOMAIN in :
                LET out == agg_conf_df.rows[i]
                IN  <<out.ref, out.hyp, out.count, out.total_ref, out.lang>>
                        = <<in[i].ref, in[i].hyp, in[i].count, in[i].total_ref, in[i].lang>>

ReadOver == read_pc \in {"returned", "raised"}

\* The jobs of experiment e whose files can be read, in the order of the paths.
ReadableJobs(e) == LET Readable(c) == c.readable IN SelectSeq(read_expts[e].jobs, Readable)

\* C13 as stated: when a job of the pool has failed, read_e2e / read_hybrid
\* still returns, and under every key it returns one error table and one
\* confusion table for each corpus that can be read, whatever the order in
\* which the workers finished.
C13_FailedJobOnlyOmitted ==
    (/\ ReadOver
     /\ \E j \in DOMAIN futures : futures[j].state = "finished" /\ futures[j].raised # None) =>
        /\ read_pc = "returned"
        /\ \A e \in DOMAIN read_expts :
            /\ Has(expt_dfs, read_expts[e].key)
            /\ Has(expt_confusions, read_expts[e].key)
            /\ Len(Get(expt_dfs, read_expts[e].key, <<>>)) = Len(ReadableJobs(e))
            /\ Len(Get(expt_confusions, read_expts[e].key, <<>>)) = Len(ReadableJobs(e))

\* C15 as stated: when every key has a path pair and every file can be read, read_e2e / read_hybrid
\* returns, and under every key expt_dfs holds the error tables and
\* expt_confusions the confusion tables that process_asr_results returns
\* for the path pairs of the key, one per pair, in the order of the paths.
C15_TablesStoredPerKey ==
    (/\ ReadOver
     /\ \A e \in DOMAIN read_expts :
            read_expts[e].jobs # <<>> /\ ReadableJobs(e) = read_expts[e].jobs) =>
        /\ read_pc = "returned"
        /\ \A e \in DOMAIN read_expts :
            LET key == read_expts[e].key
                Value(j) == process_asr_results(read_expts[e].jobs[j], IGNORED_SYMBOLS,
                                                MethodOf(key), <<>>).value
            IN  /\ Get(expt_dfs, key, <<>>) =
                        [j \in DOMAIN read_expts[e].jobs |-> Value(j)[3]]
                /\ Get(expt_confusions, key, <<>>) =
                        [j \in DOMAIN read_expts[e].jobs |-> Value(j)[4]]

\* The number of k with pairs[k] = pair.
Occurrences(pairs, pair) == Cardinality({k \in DOMAIN pairs : pairs[k] = pair})

\* TOTAL_TRUE_COUNT of sym in the error table: 0 without such a row or cell.
TotalInTable(table, sym) ==
    IF \E i \in DOMAIN table.rows : table.rows[i].index = sym
    THEN Cell(table.rows[CHOOSE i \in DOMAIN table.rows : table.rows[i].index = sym],
              "TOTAL_TRUE_COUNT")
    ELSE 0

\* C8: the confusion table has one row per distinct aligned (ref, hyp); its
\* count is the number of occurrences of the pair, its total_ref the
\* TOTAL_TRUE_COUNT of ref in the error table; the counts of a real ref sum
\* to its total_ref; a row of the gap marker has total_ref 0.
C8_ConfusionTable ==
    pc = "done" =>
        LET rows == confusions_df.rows
        IN  /\ \A i, j \in DOMAIN rows :
                    (rows[i].ref = rows[j].ref /\ rows[i].hyp = rows[j].hyp) => i = j
            /\ {<<rows[i].ref, rows[i].hyp>> : i \in DOMAIN rows}
                    = {AllPairs[k] : k \in DOMAIN AllPairs}
            /\ \A i \in DOMAIN rows :
                /\ rows[i].count = Occurrences(AllPairs, <<rows[i].ref, rows[i].hyp>>)
                /\ rows[i].total_ref = TotalInTable(df, rows[i].ref)
                /\ rows[i].lang = lang
                /\ rows[i].ref # GAP_CHAR =>
                        SumSeq([j \in DOMAIN rows |->
                                    IF rows[j].ref = rows[i].ref THEN rows[j].count ELSE 0])
                            = rows[i].total_ref
                /\ rows[i].ref = GAP_CHAR => rows[i].total_ref = 0

\* C8's case: an insertion row, a deletion row and a pair aligned twice.
C8_Witness ==
    /\ pc = "done"
    /\ \E i, j, k \in DOMAIN confusions_df.rows :
        /\ confusions_df.rows[i].ref = GAP_CHAR
        /\ confusions_df.rows[j].hyp = GAP_CHAR
        /\ confusions_df.rows[k].count >= 2
        /\ confusions_df.rows[k].ref = confusions_df.rows[k].hyp

\* The registered bases that are a prefix of the token less one stress mark.
BasesPrefixing(token) ==
    LET stripped == IF token # <<>> /\ token[1] = "'"
                    THEN SubSeq(token, 2, Len(token)) ELSE token
    IN  {b \in PHONE_BASES : startswith(stripped, b)}

HasBase(token) == BasesPrefixing(token) # {}

\* seq is the image of the tokens of text that have a base, in their order.
IsBaseImage(seq, text) ==
    LET kept == SelectSeq(Split(RemoveSpecial(text, remove_pattern)), HasBase)
    IN  /\ Len(seq) = Len(kept)
        /\ \A j \in DOMAIN seq :
            /\ seq[j] \in BasesPrefixing(kept[j])
            /\ seq[j] \in PHONE_BASES
            /\ seq[j] \notin {GAP_CHAR, UNKNOWN}
            /\ kept[j] = <<"'", "a", ":">> => seq[j] = <<"a">>

LessStress(phone) ==
    IF phone # <<>> /\ phone[1] = "'" THEN SubSeq(phone, 2, Len(phone)) ELSE phone

\* The value of the first entry of the table, in its order, whose key is a
\* prefix of phone less its stress mark; '?' without one; '*' for '*'.
FirstPrefixClass(table, phone) ==
    LET hits == {i \in DOMAIN table : startswith(LessStress(phone), table[i].k)}
    IN  IF phone = GAP_CHAR THEN GAP_CHAR
        ELSE IF hits = {} THEN UNKNOWN
        ELSE table[CHOOSE i \in hits : \A j \in hits : i <= j].v

\* The same for the bases iterated in the given order.
FirstPrefixBase(order, phone) ==
    LET hits == {i \in DOMAIN order : startswith(LessStress(phone), order[i])}
    IN  IF phone = GAP_CHAR THEN GAP_CHAR
        ELSE IF hits = {} THEN UNKNOWN
        ELSE order[CHOOSE i \in hits : \A j \in hits : i <= j]

\* C10: the three classifiers return, for every symbol, the gap marker for
\* the gap marker and otherwise the class (the base) of the first entry
\* that is a prefix of the symbol less one stress mark, or '?'; for
\* determine_base the result is the same for every iteration order.
C10_ClassifiersTotal ==
    cls_phone # None =>
        /\ cls_place = FirstPrefixClass(phone_to_place, cls_phone)
        /\ cls_manner = FirstPrefixClass(phone_to_manner, cls_phone)
        /\ \A order \in BaseOrders : cls_base = FirstPrefixBase(order, cls_phone)
        /\ cls_place \in {phone_to_place[i].v : i \in DOMAIN phone_to_place} \cup {GAP_CHAR, UNKNOWN}
        /\ cls_manner \in {phone_to_manner[i].v : i \in DOMAIN phone_to_manner} \cup {GAP_CHAR, UNKNOWN}
        /\ cls_base \in PHONE_BASES \cup {GAP_CHAR, UNKNOWN}
        /\ (cls_phone = GAP_CHAR) <=> (cls_base = GAP_CHAR)
        /\ (cls_phone = GAP_CHAR) <=> (cls_place = GAP_CHAR)
        /\ (cls_phone = GAP_CHAR) <=> (cls_manner = GAP_CHAR)

\* C10's case: the stressed long 'a'; a phone of the place table only.
C10_Witness ==
    \/ /\ cls_phone = <<"'", "a", ":">>
       /\ cls_base = <<"a">>
       /\ cls_place = <<"Vow-Open">>
       /\ cls_manner = <<"Vowels">>
    \/ /\ cls_phone = <<"@r">>
       /\ cls_manner = UNKNOWN

=============================================================================
